---- MODULE Spec2Model ----
(***************************************************************************)
(* Book catalog browser (src/scripts.js): the search filter, the "show     *)
(* more" pagination, the dialogs and the theme switch, as a state machine. *)
(*                                                                         *)
(* Strings are sequences of characters, so that toLowerCase, trim and      *)
(* includes are computed rather than assumed.  A preview element of the    *)
(* list is represented by its data-preview attribute (the book id).        *)
(***************************************************************************)
EXTENDS Integers, Sequences, FiniteSets, TLC

VARIABLES
    books,      \* the library imported from data.js (never assigned)
    current,    \* current.page, current.booksSource
    items,      \* book.list.items: data-preview ids of its children, in order
    message,    \* book.list.message has class list__message_show
    button,     \* book.list.button: .disabled and the count it displays
    dialog,     \* .open of the search, list and settings dialogs
    theme,      \* --color-dark / --color-light of the style sheet
    filters,    \* the data of book.search.form (title, author, genre)
    active,     \* <<book>> rendered in the detail dialog, or <<>>
    probe       \* direct calls of createBookPreviewsHTML (SliceSpec only)

vars == <<books, current, items, message, button, dialog, theme, filters,
          active, probe>>

(***************************************************************************)
(* Bounds of the model.                                                    *)
(***************************************************************************)
MaxBooks == 73
MaxTitleLen == 2
MaxQueryLen == 2
MaxGenres == 2
MaxPageNum == 3

(***************************************************************************)
(* Program constant.                                                       *)
(***************************************************************************)
BOOKS_PER_PAGE == 36

Min(a, b) == IF a < b THEN a ELSE b
Max(a, b) == IF a > b THEN a ELSE b

(***************************************************************************)
(* Strings.  "dotless_i" is U+0131: String.prototype.toLowerCase leaves it *)
(* alone and lower-cases "I" to "i".                                       *)
(***************************************************************************)
Chars == {"i", "I", "dotless_i", " "}

LowerChar(c) == IF c = "I" THEN "i" ELSE c

toLowerCase(s) == [k \in 1..Len(s) |-> LowerChar(s[k])]

IsWhiteSpace(c) == c = " "

RECURSIVE trimStart(_)
trimStart(s) ==
    IF s # <<>> /\ IsWhiteSpace(Head(s)) THEN trimStart(Tail(s)) ELSE s

RECURSIVE trimEnd(_)
trimEnd(s) ==
    IF s # <<>> /\ IsWhiteSpace(s[Len(s)])
    THEN trimEnd(SubSeq(s, 1, Len(s) - 1))
    ELSE s

trim(s) == trimEnd(trimStart(s))

\* s.includes(q): q occurs in s at some position
includes(s, q) ==
    \E p \in 0..(Len(s) - Len(q)) : SubSeq(s, p + 1, p + Len(q)) = q

\* Array.prototype.slice(start, end)
slice(arr, start, end) ==
    LET len == Len(arr)
        k == IF start < 0 THEN Max(len + start, 0) ELSE Min(start, len)
        final == IF end < 0 THEN Max(len + end, 0) ELSE Min(end, len)
    IN  SubSeq(arr, k + 1, final)

(***************************************************************************)
(* The library.  data.js is a list of book records with unique ids; here a *)
(* library is n books whose attributes repeat a pattern of book kinds, and *)
(* a book's id is its position.                                            *)
(***************************************************************************)
Authors == {"a1", "a2"}
Genres == {"g1", "g2"}

SeqsUpTo(S, n) == UNION {[1..m -> S] : m \in 0..n}

KindA == [title |-> <<"I", "i">>, author |-> "a1", genres |-> <<"g1", "g2">>]
KindB == [title |-> <<"dotless_i">>, author |-> "a2", genres |-> <<"g2">>]
KindC == [title |-> <<" ", "i">>, author |-> "a1", genres |-> <<>>]
Kinds == {KindA, KindB, KindC}

Patterns == {<<KindA>>, <<KindA, KindB>>, <<KindB, KindC, KindA>>}

LibraryOf(p, n) ==
    [k \in 1..n |->
        LET kind == p[((k - 1) % Len(p)) + 1]
        IN  [id |-> k, title |-> kind.title, author |-> kind.author,
             genres |-> kind.genres]]

\* library sizes around the page boundaries, and the largest
LibrarySizes ==
    {n \in 0..MaxBooks : n % BOOKS_PER_PAGE \in {0, 1, 14, 35}} \cup {MaxBooks}

Libraries == {LibraryOf(p, n) : p \in Patterns, n \in LibrarySizes}

\* one-book libraries (MatchSpec): every title with one author and no genre,
\* and every author and genre list with two titles
SingleBook(titles, authorIds, genreLists) ==
    { <<[id |-> 1, title |-> t, author |-> a, genres |-> g]>> :
        t \in titles, a \in authorIds, g \in genreLists }

SingleBookLibraries ==
    SingleBook(SeqsUpTo(Chars, MaxTitleLen), {"a1"}, {<<>>})
    \cup SingleBook({<<"I">>, <<"dotless_i", " ">>}, Authors,
                    SeqsUpTo(Genres, MaxGenres))

\* what the search form can submit
FormData(titles, authorIds, genreIds) ==
    [title : titles, author : authorIds \cup {"any"}, genre : genreIds \cup {"any"}]

SessionFormData == FormData({<<>>, <<"i">>}, {"a1"}, {"g2"})
MatchFormData ==
    FormData(SeqsUpTo(Chars, MaxQueryLen), {}, {})
    \cup FormData({<<>>, <<"i">>}, Authors, Genres)

\* probe when createBookPreviewsHTML is not called directly
NoProbe == [booksSource |-> <<>>, pageNum |-> -1, fragment |-> <<>>, all |-> <<>>]

(***************************************************************************)
(* dom-manipulation.js                                                     *)
(***************************************************************************)
\* mutant: the ending range is taken as inclusive
createBookPreviewsHTML_inclusiveEnd(booksSource, pageNum) ==
    LET startingRange == pageNum * BOOKS_PER_PAGE
        endingRange == (pageNum + 1) * BOOKS_PER_PAGE
        extractedBooks == slice(booksSource, startingRange, endingRange + 1)
    IN  [k \in 1..Len(extractedBooks) |-> extractedBooks[k].id]

\* mutant: pageNum is taken as one-based
createBookPreviewsHTML_oneBased(booksSource, pageNum) ==
    LET startingRange == (pageNum - 1) * BOOKS_PER_PAGE
        endingRange == pageNum * BOOKS_PER_PAGE
        extractedBooks == slice(booksSource, startingRange, endingRange)
    IN  [k \in 1..Len(extractedBooks) |-> extractedBooks[k].id]

\* the data-preview ids of the fragment's children
createBookPreviewsHTML(booksSource, pageNum) ==
    LET startingRange == pageNum * BOOKS_PER_PAGE
        endingRange == (pageNum + 1) * BOOKS_PER_PAGE
        extractedBooks == slice(booksSource, startingRange, endingRange)
    IN  [k \in 1..Len(extractedBooks) |-> extractedBooks[k].id]

\* mutant: the button is left as it is
disableListButton_noop(btn) == btn

disableListButton(btn) == [btn EXCEPT !.disabled = TRUE]

\* mutant: the count is not clamped at 0
updateRemainingBooks_unclamped(cur, btn) ==
    LET checkBooksInLibrary == Len(cur.booksSource) - cur.page * BOOKS_PER_PAGE
        shown == [btn EXCEPT !.remaining = checkBooksInLibrary]
    IN  IF checkBooksInLibrary <= 0 THEN disableListButton(shown) ELSE shown

\* mutant: the button is not disabled when nothing remains
updateRemainingBooks_neverDisables(cur, btn) ==
    LET checkBooksInLibrary == Len(cur.booksSource) - cur.page * BOOKS_PER_PAGE
        remainingBooks == IF checkBooksInLibrary > 0 THEN checkBooksInLibrary ELSE 0
    IN  [btn EXCEPT !.remaining = remainingBooks]

\* mutant: the button is disabled only when the last page falls short
updateRemainingBooks_disablesWhenShort(cur, btn) ==
    LET checkBooksInLibrary == Len(cur.booksSource) - cur.page * BOOKS_PER_PAGE
        remainingBooks == IF checkBooksInLibrary > 0 THEN checkBooksInLibrary ELSE 0
        shown == [btn EXCEPT !.remaining = remainingBooks]
    IN  IF checkBooksInLibrary < 0 THEN disableListButton(shown) ELSE shown

updateRemainingBooks(cur, btn) ==
    LET checkBooksInLibrary == Len(cur.booksSource) - cur.page * BOOKS_PER_PAGE
        remainingBooks == IF checkBooksInLibrary > 0 THEN checkBooksInLibrary ELSE 0
        shown == [btn EXCEPT !.remaining = remainingBooks]
    IN  IF remainingBooks = 0 THEN disableListButton(shown) ELSE shown

\* the list and the button after loadFirstPage()
loadFirstPage(cur, its, btn) ==
    [items |-> its \o createBookPreviewsHTML(cur.booksSource, 0),
     button |-> updateRemainingBooks(cur, btn)]

(***************************************************************************)
(* State after the modules have loaded: current is {page: 1, booksSource:  *)
(* books} and loadFirstPage() has run on the empty list.                   *)
(***************************************************************************)
InitSession(library) ==
    LET cur == [page |-> 1, booksSource |-> library]
        first == loadFirstPage(cur, <<>>, [disabled |-> FALSE, remaining |-> 0])
    IN  /\ books = library
        /\ current = cur
        /\ items = first.items
        /\ button = first.button
        /\ message = FALSE
        /\ dialog = [search |-> FALSE, list |-> FALSE, settings |-> FALSE]
        /\ theme = [dark |-> "10, 10, 20", light |-> "255, 255, 255"]
        /\ filters = [title |-> <<>>, author |-> "any", genre |-> "any"]
        /\ active = <<>>

InitWith(library) == InitSession(library) /\ probe = NoProbe

Init == \E library \in Libraries : InitWith(library)

(***************************************************************************)
(* scripts.js                                                              *)
(***************************************************************************)
handleToggleDialog(dlg, feature) == [dlg EXCEPT ![feature] = ~dlg[feature]]

css ==
    [day |-> [dark |-> "10, 10, 20", light |-> "255, 255, 255"],
     night |-> [dark |-> "255, 255, 255", light |-> "10, 10, 20"]]

\* mutant: saving the theme also goes back to the first page
toggleThemeHandler_resetsPage(th) ==
    /\ theme' = [dark |-> css[th].dark, light |-> css[th].light]
    /\ dialog' = handleToggleDialog(dialog, "settings")
    /\ current' = [current EXCEPT !.page = 1]
    /\ UNCHANGED <<books, items, message, button, filters, active, probe>>

toggleThemeHandler(th) ==
    /\ theme' = [dark |-> css[th].dark, light |-> css[th].light]
    /\ dialog' = handleToggleDialog(dialog, "settings")
    /\ UNCHANGED <<books, current, items, message, button, filters, active, probe>>

\* the click listeners of the cancel, header and close buttons
ToggleDialog(feature) ==
    /\ dialog' = handleToggleDialog(dialog, feature)
    /\ UNCHANGED <<books, current, items, message, button, theme, filters,
                   active, probe>>

\* null and a found value: the empty and the one-element sequence
null == <<>>

\* the inner loop of handleOpenBookPreviewDialog: first book with that id
\* mutant: the loop starts at the second book
RECURSIVE findBook_skipsFirst(_, _, _, _)
findBook_skipsFirst(library, k, result, preview) ==
    LET j == IF k = 1 THEN 2 ELSE k
    IN  IF j > Len(library) \/ result # null THEN result
        ELSE findBook_skipsFirst(library, j + 1,
                 IF library[j].id = preview THEN <<library[j]>> ELSE result,
                 preview)

RECURSIVE findBook(_, _, _, _)
findBook(library, k, result, preview) ==
    IF k > Len(library) \/ result # null THEN result
    ELSE findBook(library, k + 1,
                  IF library[k].id = preview THEN <<library[k]>> ELSE result,
                  preview)

\* dataset: <<id>> when a node of the click's path has data-preview, else null
\* mutant: the dialog is toggled whether or not a book was found
handleOpenBookPreviewDialog_togglesAlways(dataset) ==
    LET found == IF dataset # null THEN findBook(books, 1, null, dataset[1]) ELSE null
    IN  /\ UNCHANGED <<books, current, items, message, button, theme, filters, probe>>
        /\ dialog' = handleToggleDialog(dialog, "list")
        /\ active' = IF found # null THEN found ELSE active

handleOpenBookPreviewDialog(dataset) ==
    LET found == IF dataset # null THEN findBook(books, 1, null, dataset[1]) ELSE null
    IN  /\ UNCHANGED <<books, current, items, message, button, theme, filters, probe>>
        /\ IF found # null
           THEN /\ dialog' = handleToggleDialog(dialog, "list")
                /\ active' = found
           ELSE UNCHANGED <<dialog, active>>

\* mutant: only the first genre of the book is compared
genreLoop_firstOnly(genres, k, genreMatch, genre) ==
    genreMatch \/ (Len(genres) >= 1 /\ genres[1] = genre)

\* the loop over book.genres, with its break
RECURSIVE genreLoop(_, _, _, _)
genreLoop(genres, k, genreMatch, genre) ==
    IF k > Len(genres) \/ genreMatch THEN genreMatch
    ELSE genreLoop(genres, k + 1, genres[k] = genre, genre)

titleMatch(title, query) ==
    \/ trim(query) = <<>>
    \/ includes(toLowerCase(title), toLowerCase(query))

\* mutant: genreMatch starts false, the sentinel "any" is not looked at
bookMatches_anyIgnored(bk, f) ==
    LET genreMatch == genreLoop(bk.genres, 1, FALSE, f.genre)
    IN  /\ titleMatch(bk.title, f.title)
        /\ (f.author = "any" \/ bk.author = f.author)
        /\ genreMatch

\* the condition under which the loop pushes a book to result
bookMatches(bk, f) ==
    LET genreMatch == genreLoop(bk.genres, 1, f.genre = "any", f.genre)
    IN  /\ titleMatch(bk.title, f.title)
        /\ (f.author = "any" \/ bk.author = f.author)
        /\ genreMatch

\* mutant: result.unshift(book) instead of result.push(book)
filterBooks_unshift(library, f) ==
    LET result == SelectSeq(library, LAMBDA bk : bookMatches(bk, f))
    IN  [k \in 1..Len(result) |-> result[Len(result) + 1 - k]]

\* the loop over books
filterBooks(library, f) == SelectSeq(library, LAMBDA bk : bookMatches(bk, f))

\* The submit handler.  The conjuncts that do not depend on the filter loop
\* come first; their order does not matter to what the handler does.

\* mutant: the list is not cleared before the first page is appended
handleBookFilterSearch_keepsList(f) ==
    /\ filters' = f
    /\ dialog' = handleToggleDialog(dialog, "search")
    /\ UNCHANGED <<books, theme, active, probe>>
    /\ current' = [page |-> 1, booksSource |-> filterBooks(books, f)]
    /\ message' = (Len(current'.booksSource) < 1)
    /\ LET first == loadFirstPage(current', items, button)
       IN  /\ items' = first.items
           /\ button' = first.button

\* mutant: the message is shown on an empty result and never removed
handleBookFilterSearch_neverHides(f) ==
    /\ filters' = f
    /\ dialog' = handleToggleDialog(dialog, "search")
    /\ UNCHANGED <<books, theme, active, probe>>
    /\ current' = [page |-> 1, booksSource |-> filterBooks(books, f)]
    /\ message' = (message \/ Len(current'.booksSource) < 1)
    /\ LET first == loadFirstPage(current', <<>>, button)
       IN  /\ items' = first.items
           /\ button' = first.button

\* mutant: the loop runs over current.booksSource instead of books
handleBookFilterSearch_fromCurrent(f) ==
    /\ filters' = f
    /\ dialog' = handleToggleDialog(dialog, "search")
    /\ UNCHANGED <<books, theme, active, probe>>
    /\ current' = [page |-> 1, booksSource |-> filterBooks(current.booksSource, f)]
    /\ message' = (Len(current'.booksSource) < 1)
    /\ LET first == loadFirstPage(current', <<>>, button)
       IN  /\ items' = first.items
           /\ button' = first.button

handleBookFilterSearch(f) ==
    /\ filters' = f
    /\ dialog' = handleToggleDialog(dialog, "search")
    /\ UNCHANGED <<books, theme, active, probe>>
    /\ current' = [page |-> 1, booksSource |-> filterBooks(books, f)]
    /\ message' = (Len(current'.booksSource) < 1)
    /\ LET first == loadFirstPage(current', <<>>, button)
       IN  /\ items' = first.items
           /\ button' = first.button

\* mutant: the page is incremented before the fragment is created
handleLoadNextPage_incrementsFirst ==
    /\ ~button.disabled
    /\ current' = [current EXCEPT !.page = current.page + 1]
    /\ items' = items \o createBookPreviewsHTML(current.booksSource, current'.page)
    /\ button' = updateRemainingBooks(current', button)
    /\ UNCHANGED <<books, message, dialog, theme, filters, active, probe>>

\* a click on book.list.button; a disabled button dispatches no click
\* mutant: current.page is not incremented
handleLoadNextPage_noIncrement ==
    /\ ~button.disabled
    /\ items' = items \o createBookPreviewsHTML(current.booksSource, current.page)
    /\ current' = current
    /\ button' = updateRemainingBooks(current', button)
    /\ UNCHANGED <<books, message, dialog, theme, filters, active, probe>>

handleLoadNextPage ==
    /\ ~button.disabled
    /\ items' = items \o createBookPreviewsHTML(current.booksSource, current.page)
    /\ current' = [current EXCEPT !.page = current.page + 1]
    /\ button' = updateRemainingBooks(current', button)
    /\ UNCHANGED <<books, message, dialog, theme, filters, active, probe>>

\* where a click on the list can land: outside the previews, on the first
\* preview, or on a node whose data-preview (0) is the id of no book
ClickTargets ==
    {null, <<0>>} \cup (IF items = <<>> THEN {} ELSE {<<items[1]>>})

Next ==
    \/ \E f \in SessionFormData : handleBookFilterSearch(f)
    \/ handleLoadNextPage
    \/ \E dataset \in ClickTargets : handleOpenBookPreviewDialog(dataset)
    \/ \E feature \in {"search", "list", "settings"} : ToggleDialog(feature)
    \/ \E th \in {"day", "night"} : toggleThemeHandler(th)

Spec == Init /\ [][Next]_vars

(***************************************************************************)
(* MatchSpec: the search form submitted on libraries of one book, over     *)
(* every title and query up to MaxTitleLen and MaxQueryLen characters.     *)
(***************************************************************************)
InitMatch == \E library \in SingleBookLibraries : InitWith(library)

NextMatch == \E f \in MatchFormData : handleBookFilterSearch(f)

MatchSpec == InitMatch /\ [][NextMatch]_vars

(***************************************************************************)
(* SliceSpec: createBookPreviewsHTML called on a library of every size for *)
(* pageNum = 0, 1, ..., MaxPageNum; probe.all collects the fragments.      *)
(***************************************************************************)
InitSlice ==
    \E p \in Patterns, n \in 0..MaxBooks :
        /\ InitSession(LibraryOf(p, n))
        /\ probe = [booksSource |-> LibraryOf(p, n), pageNum |-> 0,
                    fragment |-> <<>>, all |-> <<>>]

CallCreateBookPreviews ==
    /\ probe.pageNum >= 0
    /\ probe.pageNum <= MaxPageNum
    /\ LET fragment == createBookPreviewsHTML(probe.booksSource, probe.pageNum)
       IN  probe' = [probe EXCEPT !.fragment = fragment,
                                  !.all = probe.all \o fragment,
                                  !.pageNum = probe.pageNum + 1]
    /\ UNCHANGED <<books, current, items, message, button, dialog, theme,
                   filters, active>>

SliceSpec == InitSlice /\ [][CallCreateBookPreviews]_vars

(***************************************************************************)
(* Properties.                                                             *)
(***************************************************************************)
MatchAll == [title |-> <<>>, author |-> "any", genre |-> "any"]

\* the ids of the records of s at positions from + 1 .. to, clipped to s
IdsBetween(s, from, to) ==
    [k \in 1..(Min(to, Len(s)) - Min(from, Len(s))) |-> s[Min(from, Len(s)) + k].id]

\* remaining(): max(0, len(activeCollection) - pageIndex * pageSize)
Remaining == Max(0, Len(current.booksSource) - current.page * BOOKS_PER_PAGE)

\* C1: the displayed items are exactly the first
\* min(len(activeCollection), pageIndex * pageSize) records of the current
\* activeCollection, in order, without gaps, duplicates or leftovers.
C1_DisplayedIsShownPrefix ==
    LET src == current.booksSource
        shown == Min(Len(src), current.page * BOOKS_PER_PAGE)
    IN  /\ Len(items) = shown
        /\ \A k \in 1..shown : items[k] = src[k].id
        /\ Cardinality({items[k] : k \in 1..Len(items)}) = Len(items)

\* C1 witness: a second page of a filter result that is not the library
C1_Witness ==
    /\ current.page = 2
    /\ Len(items) > BOOKS_PER_PAGE
    /\ Len(current.booksSource) < Len(books)
    /\ items[1] # 1

\* C2: the filter result holds exactly the records of the library that match
\* the submitted filters, each once, in their original relative order.
C2_FilterIsMatchingSubsequence ==
    LET src == current.booksSource
        matching == {k \in 1..Len(books) : bookMatches(books[k], filters)}
    IN  /\ \A j \in 1..Len(src) :
              /\ src[j].id \in 1..Len(books)
              /\ src[j] = books[src[j].id]
        /\ \A j \in 1..(Len(src) - 1) : src[j].id < src[j + 1].id
        /\ {src[j].id : j \in 1..Len(src)} = matching

\* C2 witness: a result of several records that skips records of the library
C2_Witness ==
    /\ filters # MatchAll
    /\ Len(current.booksSource) > BOOKS_PER_PAGE
    /\ \E j \in 1..Len(current.booksSource) : current.booksSource[j].id > j + 1

\* C5: filtering with the match-all filters returns the library itself.
C5_MatchAllIsIdentity == filters = MatchAll => current.booksSource = books

\* C5 witness: the match-all filters submitted after the button was disabled
\* (only a submission leaves page 1 of a longer library with a disabled button)
C5_Witness ==
    /\ filters = MatchAll
    /\ current.page = 1
    /\ button.disabled
    /\ Len(books) > BOOKS_PER_PAGE
    /\ current.booksSource = books

\* C8: a submission sets activeCollection to the filter result, pageIndex to
\* 1 and shows the first slice; an advance appends the slice of the old
\* pageIndex and increments pageIndex by one; pageIndex >= 1 always.
C8_ResetAndAdvance ==
    /\ [](current.page >= 1)
    /\ [][ /\ (\E f \in SessionFormData : handleBookFilterSearch(f)) =>
                /\ current'.page = 1
                /\ current'.booksSource = filterBooks(books, filters')
                /\ items' = IdsBetween(current'.booksSource, 0, BOOKS_PER_PAGE)
           /\ handleLoadNextPage =>
                /\ items' = items \o IdsBetween(current.booksSource,
                                                current.page * BOOKS_PER_PAGE,
                                                (current.page + 1) * BOOKS_PER_PAGE)
                /\ current'.page = current.page + 1
                /\ current'.booksSource = current.booksSource ]_vars

\* C8 witness: two advances on a filter result
C8_Witness ==
    /\ filters # MatchAll
    /\ current.page = 3
    /\ Len(items) > 2 * BOOKS_PER_PAGE

\* C9: the count shown on the button is max(0, len - pageIndex * pageSize)
\* of the current state, never negative.
C9_ReportedRemaining ==
    /\ button.remaining = Remaining
    /\ button.remaining >= 0

\* C9 witness: a positive count after an advance on a filter result
C9_Witness ==
    /\ filters # MatchAll
    /\ current.page = 2
    /\ button.remaining > 0

\* C10: every advance lowers remaining() by pageSize, clamped at 0, and
\* strictly; at 0 no advance is possible; 50 records show [0..36) with 14
\* remaining, then [36..50) with 0 remaining.
C10_RemainingDecreases ==
    /\ [](Remaining = 0 => ~ENABLED handleLoadNextPage)
    /\ []((Len(current.booksSource) = 50 /\ current.page = 1) =>
            /\ items = IdsBetween(current.booksSource, 0, 36)
            /\ Remaining = 14)
    /\ []((Len(current.booksSource) = 50 /\ current.page = 2) =>
            /\ items = IdsBetween(current.booksSource, 0, 50)
            /\ Remaining = 0)
    /\ [][handleLoadNextPage =>
            /\ Remaining' = Max(0, Remaining - BOOKS_PER_PAGE)
            /\ Remaining' < Remaining]_vars

\* C10 witness: 50 records after one advance, nothing remaining
C10_Witness ==
    /\ Len(current.booksSource) = 50
    /\ current.page = 2
    /\ Len(items) = 50
    /\ button.remaining = 0
    /\ button.disabled

\* the one book of a MatchSpec library is in the filter result
Matched == Len(current.booksSource) = 1

\* C3: a record matches iff the title predicate holds, the author is "any"
\* or the record's, and the genre is "any" or occurs anywhere in the record's
\* genres; a record without genres matches only when the genre is "any".
C3_MatchIsConjunction ==
    LET bk == books[1]
        titlePredicate == titleMatch(bk.title, filters.title)
        authorPredicate == filters.author = "any" \/ bk.author = filters.author
        genrePredicate ==
            \/ filters.genre = "any"
            \/ \E k \in 1..Len(bk.genres) : bk.genres[k] = filters.genre
    IN  /\ Matched <=> (titlePredicate /\ authorPredicate /\ genrePredicate)
        /\ (bk.genres = <<>> /\ Matched) => filters.genre = "any"

\* C3 witness: a match on the title, the author and the second genre
C3_Witness ==
    /\ books[1].genres = <<"g1", "g2">>
    /\ filters = [title |-> <<"i">>, author |-> books[1].author, genre |-> "g2"]
    /\ Matched

\* what changing the letter case of a character can give: toUpperCase maps
\* both "i" and U+0131 to "I"
UpperChar(c) == IF c \in {"i", "dotless_i"} THEN "I" ELSE c

CaseChanges(s) ==
    {s2 \in [1..Len(s) -> Chars] :
        \A k \in 1..Len(s) : s2[k] \in {s[k], LowerChar(s[k]), UpperChar(s[k])}}

Blank(q) == \A k \in 1..Len(q) : q[k] = " "

Contains(s, q) ==
    \E from \in 1..(Len(s) + 1) :
        /\ from + Len(q) - 1 <= Len(s)
        /\ \A k \in 1..Len(q) : s[from + k - 1] = q[k]

\* C4 (as claimed): with author and genre "any", the record matches iff the
\* query is blank or the lower-cased title contains the lower-cased query,
\* and every change of letter case in the title or the query gives the same
\* result.
C4_TitlePredicateCaseInsensitive ==
    (filters.author = "any" /\ filters.genre = "any") =>
        LET title == books[1].title
            query == filters.title
        IN  /\ Matched <=>
                  (Blank(query) \/ Contains(toLowerCase(title), toLowerCase(query)))
            /\ \A title2 \in CaseChanges(title), query2 \in CaseChanges(query) :
                  titleMatch(title2, query2) = Matched

\* C4, the part that holds: the equivalence, and the same result under every
\* change of case that leaves U+0131 out
C4_TitlePredicateLowerCased ==
    (filters.author = "any" /\ filters.genre = "any") =>
        LET title == books[1].title
            query == filters.title
            plain(s) == \A k \in 1..Len(s) : s[k] # "dotless_i"
        IN  /\ Matched <=>
                  (Blank(query) \/ Contains(toLowerCase(title), toLowerCase(query)))
            /\ (plain(title) /\ plain(query)) =>
                  \A title2 \in CaseChanges(title), query2 \in CaseChanges(query) :
                      titleMatch(title2, query2) = Matched

\* C6: the fragment of page i holds the records of C from i * pageSize up to
\* (i + 1) * pageSize, clipped to C: at most pageSize, none past the end.
C6_PageSliceIsClippedWindow ==
    probe.pageNum >= 1 =>
        LET i == probe.pageNum - 1
            C == probe.booksSource
            from == i * BOOKS_PER_PAGE
            to == (i + 1) * BOOKS_PER_PAGE
        IN  /\ Len(probe.fragment) <= BOOKS_PER_PAGE
            /\ from >= Len(C) => probe.fragment = <<>>
            /\ Len(probe.fragment) = Max(0, Min(to, Len(C)) - from)
            /\ \A k \in 1..Len(probe.fragment) : probe.fragment[k] = C[from + k].id

\* C6 witness: a last page clipped to one record
C6_Witness ==
    /\ probe.pageNum = 3
    /\ Len(probe.booksSource) = 2 * BOOKS_PER_PAGE + 1
    /\ Len(probe.fragment) = 1

\* C7: the fragments of pages 0, 1, ..., k concatenated are the first
\* (k + 1) * pageSize records of C, and all of C once the pages are exhausted.
C7_SlicesReconstruct ==
    probe.pageNum >= 0 =>
        LET C == probe.booksSource
        IN  /\ probe.all = IdsBetween(C, 0, probe.pageNum * BOOKS_PER_PAGE)
            /\ (probe.pageNum >= 1 /\ probe.pageNum * BOOKS_PER_PAGE >= Len(C)) =>
                  /\ Len(probe.all) = Len(C)
                  /\ \A k \in 1..Len(C) : probe.all[k] = C[k].id

\* C7 witness: three fragments, the last one partial, make up the library
C7_Witness ==
    /\ probe.pageNum = 3
    /\ Len(probe.booksSource) > 2 * BOOKS_PER_PAGE
    /\ Len(probe.all) = Len(probe.booksSource)

\* a submission of the search form, a click on the list
SubmitStep == \E f \in SessionFormData : handleBookFilterSearch(f)
ClickStep == \E dataset \in ClickTargets : handleOpenBookPreviewDialog(dataset)

\* C11: with remaining() = 0 no advance takes place: the button is disabled,
\* no click reaches handleLoadNextPage, and pageIndex, activeCollection and
\* the displayed items change only by a filter submission.
C11_AdvanceAtZeroRejected ==
    /\ [](Remaining = 0 => (button.disabled /\ ~ENABLED handleLoadNextPage))
    /\ [][(Remaining = 0 /\ ~SubmitStep) => UNCHANGED <<current, items>>]_vars

\* C11 witness: everything shown after an advance, the button disabled
C11_Witness ==
    /\ current.page >= 2
    /\ Remaining = 0
    /\ Len(items) = Len(current.booksSource)
    /\ button.disabled

\* C12: whenever the remaining count is 0 the button is disabled, also when
\* the first page holds fewer than, or exactly, pageSize records.
C12_DisabledAtZero ==
    /\ button.remaining = 0 => button.disabled
    /\ (current.page = 1 /\ Len(current.booksSource) <= BOOKS_PER_PAGE) =>
          (button.remaining = 0 /\ button.disabled)

\* C12 witness: a filter result of exactly pageSize records
C12_Witness ==
    /\ filters # MatchAll
    /\ current.page = 1
    /\ Len(current.booksSource) = BOOKS_PER_PAGE
    /\ Len(books) > BOOKS_PER_PAGE
    /\ button.disabled

\* a click on a dialog button, a submission of the settings form
ToggleStep == \E feature \in {"search", "list", "settings"} : ToggleDialog(feature)
ThemeStep == \E th \in {"day", "night"} : toggleThemeHandler(th)

\* C13: after every filter submission the no-results message is shown exactly
\* when the result is empty, and then nothing is displayed and nothing
\* remains; a submission with a non-empty result hides it again.
C13_MessageIffEmpty ==
    [][SubmitStep =>
          /\ message' <=> (Len(current'.booksSource) = 0)
          /\ message' => (Remaining' = 0 /\ items' = <<>> /\ button'.remaining = 0)
          /\ (message /\ Len(current'.booksSource) > 0) => ~message']_vars

\* C13 witness: the message shown over a library that is not empty
C13_Witness ==
    /\ message
    /\ Len(books) > 0
    /\ items = <<>>
    /\ current.booksSource = <<>>

\* the first book of the library with this id, as <<book>>, or null
FirstWithId(id) ==
    LET hits == {k \in 1..Len(books) : books[k].id = id}
    IN  IF hits = {} THEN null
        ELSE <<books[CHOOSE k \in hits : \A j \in hits : k <= j]>>

\* C14: a click whose id matches no book changes nothing: no detail is
\* rendered and the detail dialog stays as it is; a click whose id matches
\* renders that book. Neither changes the pagination state or the items.
C14_SelectUnknownIsNoop ==
    [][\A dataset \in ClickTargets :
          handleOpenBookPreviewDialog(dataset) =>
             /\ UNCHANGED <<current, items, button, message>>
             /\ IF dataset # null /\ FirstWithId(dataset[1]) # null
                THEN /\ active' = FirstWithId(dataset[1])
                     /\ dialog'.list = ~dialog.list
                ELSE UNCHANGED <<dialog, active>>]_vars

\* C14 witness: a book selected on the second page
C14_Witness ==
    /\ active # null
    /\ dialog.list
    /\ current.page = 2
    /\ FirstWithId(0) = null

\* C15: the button is enabled whenever records remain to be shown.
C15_EnabledWhileRemaining == Remaining > 0 => ~button.disabled

\* C16: whatever was submitted or loaded before, current.booksSource is the
\* filter of the whole library by the filters submitted last, so it depends
\* on the library and those filters alone; no step changes the library.
C16_FilterFromLibrary ==
    /\ [](current.booksSource = filterBooks(books, filters))
    /\ [][books' = books]_vars

\* C16 witness: a result of more than one page, submitted after the button
\* was disabled
C16_Witness ==
    /\ filters # MatchAll
    /\ current.page = 1
    /\ Len(current.booksSource) > BOOKS_PER_PAGE
    /\ Len(current.booksSource) < Len(books)
    /\ button.disabled

\* C17: only a filter submission and an advance change the pagination state:
\* an advance leaves current.booksSource and the message alone; a click on
\* the list, a dialog toggle and a theme submission leave the page, the
\* collection, the items and the button alone.
C17_OnlySubmitAndAdvance ==
    [][/\ handleLoadNextPage =>
             (current'.booksSource = current.booksSource /\ message' = message)
       /\ (ClickStep \/ ToggleStep \/ ThemeStep) =>
             UNCHANGED <<current, items, button>>]_vars

\* C17 witness: a theme saved, a book selected, on the second page
C17_Witness ==
    /\ theme.dark = css["night"].dark
    /\ active # null
    /\ dialog.list
    /\ current.page = 2
    /\ Len(items) > BOOKS_PER_PAGE

\* C18 as stated: an advance, and a second submission of the same filters,
\* each leave (page, collection, items, remaining) different from before.
C18_NeitherIdempotent ==
    [][/\ handleLoadNextPage =>
             <<current, items, button.remaining>>' # <<current, items, button.remaining>>
       /\ (current.page = 1 /\ handleBookFilterSearch(filters)) =>
             <<current, items, button.remaining>>' # <<current, items, button.remaining>>]_vars

\* C18: an advance is not idempotent: it changes the page, the items and the
\* remaining count; a second submission of the same filters straight after
\* the first leaves page, collection, items and remaining count as they were.
C18_AdvanceNotIdempotent ==
    [][/\ handleLoadNextPage =>
             /\ current'.page # current.page
             /\ items' # items
             /\ button'.remaining # button.remaining
             /\ Remaining' # Remaining
       /\ (current.page = 1 /\ handleBookFilterSearch(filters)) =>
             UNCHANGED <<current, items, button>>]_vars

\* C18 witness: filters submitted twice (the search dialog is closed again),
\* with a further page to advance to
C18_Witness ==
    /\ filters # MatchAll
    /\ current.page = 1
    /\ ~dialog.search
    /\ Len(items) = BOOKS_PER_PAGE
    /\ Remaining > 0
    /\ ~button.disabled

\* C19: every displayed item carries the id of a book of the library, the
\* lookup of a displayed id finds the very book displayed there, and a click
\* on a displayed item, the detail dialog being closed, opens it on that book.
C19_DisplayedIsSelectable ==
    /\ [](/\ {items[k] : k \in 1..Len(items)} \subseteq
               {books[k].id : k \in 1..Len(books)}
          /\ \A k \in {1, Len(items)} \cap (1..Len(items)) :
               findBook(books, 1, null, items[k]) = <<current.booksSource[k]>>)
    /\ [][(items # <<>> /\ ~dialog.list
             /\ handleOpenBookPreviewDialog(<<items[1]>>)) =>
             /\ dialog'.list
             /\ active' = <<current.booksSource[1]>>
             /\ active' = FirstWithId(items[1])]_vars

\* C19 witness: the detail dialog open on the first book of a filter result
\* that is not the first book of the library
C19_Witness ==
    /\ dialog.list
    /\ items # <<>>
    /\ active = <<current.booksSource[1]>>
    /\ active # <<books[1]>>

====
